---- MODULE Spec2Model ----
(***************************************************************************)
(* AURA AI matching service (services/ai-service/main.py).                 *)
(*                                                                         *)
(* Numbers.  The service computes in IEEE doubles; the model computes the  *)
(* same expressions in exact rationals <<n, d>> (d > 0, lowest terms).     *)
(* round(x * 100, 1) is modelled as the integer number of tenths, so a     *)
(* reported score of 85.3 is the integer 853.  A NaN (numpy's mean of an   *)
(* empty slice) is the pair <<0, 0>>.                                      *)
(*                                                                         *)
(* Optional fields are sequences of length at most one: <<>> is None.      *)
(* Exceptions are the field err of a result ("" when nothing was raised).  *)
(***************************************************************************)
EXTENDS Integers, Sequences, FiniteSets, TLC

VARIABLES hashOrder, REDIS_AVAILABLE, redisUp, redis_client, last, written

vars == <<hashOrder, REDIS_AVAILABLE, redisUp, redis_client, last, written>>

(***************************************************************************)
(* Exact rational arithmetic                                               *)
(***************************************************************************)
AbsInt(x) == IF x < 0 THEN -x ELSE x

RECURSIVE Gcd(_, _)
Gcd(a, b) == IF b = 0 THEN a ELSE Gcd(b, a % b)

R(n, d) ==
    LET g == Gcd(AbsInt(n), d)
    IN  <<n \div g, d \div g>>

Lcm(a, b) == (a \div Gcd(a, b)) * b

RAdd(x, y) ==
    LET l == Lcm(x[2], y[2])
    IN  R(x[1] * (l \div x[2]) + y[1] * (l \div y[2]), l)

RNeg(x) == <<-x[1], x[2]>>
RSub(x, y) == RAdd(x, RNeg(y))
RMul(x, y) ==
    LET g1 == Gcd(AbsInt(x[1]), y[2])
        g2 == Gcd(AbsInt(y[1]), x[2])
    IN  R((x[1] \div g1) * (y[1] \div g2), (x[2] \div g2) * (y[2] \div g1))
RDivInt(x, k) == RMul(x, <<1, k>>)
RAbs(x) == <<AbsInt(x[1]), x[2]>>
RLt(x, y) == x[1] * y[2] < y[1] * x[2]
RLe(x, y) == x[1] * y[2] <= y[1] * x[2]
RMax(x, y) == IF RLt(x, y) THEN y ELSE x
RMin(x, y) == IF RLt(y, x) THEN y ELSE x
RInt(k) == <<k, 1>>
ROne == RInt(1)
RZero == RInt(0)
RHalf == R(1, 2)

RECURSIVE RSum(_)
RSum(s) == IF s = <<>> THEN RZero ELSE RAdd(Head(s), RSum(Tail(s)))

\* np.mean of a non-empty list
\* Mutant: the mean of the first and the last item
MeanOfEnds(s) == RDivInt(RAdd(s[1], s[Len(s)]), 2)
Mean(s) == RDivInt(RSum(s), Len(s))

\* round(x * 100, 1), in tenths.  At an exact tie the service's result is
\* decided by the rounding error of its doubles; the model takes the even
\* tenth.
Round1(x) ==
    LET d == x[2]
        r0 == x[1] % d
        r1 == (r0 * 10) % d
        r2 == (r1 * 10) % d
        r == (r2 * 10) % d
        q == (x[1] \div d) * 1000 + ((r0 * 10) \div d) * 100
             + ((r1 * 10) \div d) * 10 + (r2 * 10) \div d
    IN  IF 2 * r < d THEN q
        ELSE IF 2 * r > d THEN q + 1
        ELSE IF q % 2 = 0 THEN q ELSE q + 1

(***************************************************************************)
(* Sequences                                                               *)
(***************************************************************************)
Range(s) == {s[i] : i \in 1..Len(s)}
Take(s, n) == SubSeq(s, 1, IF n < Len(s) THEN n ELSE Len(s))
IsNone(x) == x = <<>>
Get(x) == x[1]

\* Mutant: the slice keeps one item too many
SliceOneMore(s, k) ==
    IF k >= 0 THEN Take(s, k + 1)
    ELSE IF Len(s) + k > 0 THEN SubSeq(s, 1, Len(s) + k) ELSE <<>>

\* Python s[:k]: the first k items for k >= 0, all but the last -k for k < 0
Slice(s, k) ==
    IF k >= 0 THEN Take(s, k)
    ELSE IF Len(s) + k > 0 THEN SubSeq(s, 1, Len(s) + k) ELSE <<>>

RECURSIVE Perms(_)
Perms(S) ==
    IF S = {} THEN {<<>>}
    ELSE UNION {{<<x>> \o p : p \in Perms(S \ {x})} : x \in S}

(***************************************************************************)
(* Configuration (environment defaults), in hundredths                     *)
(***************************************************************************)
EMBEDDING_DIM == 128
\* Mutant: a heavier personality weight, the five weights sum to more than 1
PERSONALITY_WEIGHT_heavier == R(35, 100)
PERSONALITY_WEIGHT == R(30, 100)
VALUES_WEIGHT == R(25, 100)
LIFESTYLE_WEIGHT == R(20, 100)
ATTRACTION_WEIGHT == R(15, 100)
CIRCUMSTANTIAL_WEIGHT == R(10, 100)

(***************************************************************************)
(* UserProfile.values: a dict, here its items in insertion order.  A value *)
(* is a number [t |-> "num", v |-> n] or a text that float() rejects       *)
(* [t |-> "str", v |-> 0].                                                 *)
(***************************************************************************)
Num(n) == [t |-> "num", v |-> n]
Str == [t |-> "str", v |-> 0]
Item(k, x) == [key |-> k, val |-> x]

Keys(values) == {values[i].key : i \in 1..Len(values)}
Lookup(values, k) == (CHOOSE i \in 1..Len(values) : values[i].key = k)
ValueOf(values, k) == values[Lookup(values, k)].val

\* Iteration order of a set of str in a process: decided by the process's
\* string-hash seed (PYTHONHASHSEED), here the order the seed gives the keys.
SetIter(order, S) == SelectSeq(order, LAMBDA k : k \in S)

(***************************************************************************)
(* Compatibility scoring.  A scorer returns [err, score, ev]: the score,   *)
(* the evidence strings, and the exception it raised, if any.              *)
(***************************************************************************)
Ok(score, ev) == [err |-> "", score |-> score, ev |-> ev]
Raise(e) == [err |-> e, score |-> RZero, ev |-> <<>>]

\* sorted() of attachment tags compares them as strings
StrRank(s) ==
    CASE s = "ANXIOUS" -> 1
      [] s = "AVOIDANT" -> 2
      [] s = "DISORGANIZED" -> 3
      [] s = "SECURE" -> 4
      [] OTHER -> 5

SortedPair(x, y) == IF StrRank(x) <= StrRank(y) THEN <<x, y>> ELSE <<y, x>>

\* Mutant: every pair of styles scores the default
attachment_compatibility_default(pair) == R(5, 10)

attachment_compatibility(pair) ==
    CASE pair = <<"SECURE", "SECURE">> -> R(10, 10)
      [] pair = <<"SECURE", "ANXIOUS">> -> R(7, 10)
      [] pair = <<"SECURE", "AVOIDANT">> -> R(7, 10)
      [] pair = <<"ANXIOUS", "AVOIDANT">> -> R(3, 10)
      [] pair = <<"ANXIOUS", "ANXIOUS">> -> R(5, 10)
      [] pair = <<"AVOIDANT", "AVOIDANT">> -> R(4, 10)
      [] OTHER -> R(5, 10)

If(c, s) == IF c THEN s ELSE <<>>

calculate_personality_compatibility(a, b) ==
    LET c_diff == R(AbsInt(a.conscientiousness - b.conscientiousness), 100)
        a_diff == R(AbsInt(a.agreeableness - b.agreeableness), 100)
        o_diff == R(AbsInt(a.openness - b.openness), 100)
        n_avg == R(a.neuroticism + b.neuroticism, 2)
        n_score == RSub(ROne, RDivInt(n_avg, 100))
        e_diff == R(AbsInt(a.extraversion - b.extraversion), 100)
        e_score == RSub(ROne, RAbs(RSub(e_diff, R(2, 10))))
        pair == SortedPair(a.attachment_style, b.attachment_style)
        attach_score == attachment_compatibility(pair)
        scores == << RSub(ROne, c_diff), RSub(ROne, a_diff), RSub(ROne, o_diff),
                     n_score, e_score, attach_score >>
        compatibilities ==
            If(RLt(c_diff, R(2, 10)), <<"Similar life organization styles">>)
            \o If(RLt(a_diff, R(2, 10)), <<"Compatible communication styles">>)
            \o If(RLt(o_diff, R(2, 10)), <<"Shared curiosity and creativity">>)
            \o If(RLt(n_avg, RInt(40)), <<"Emotional stability">>)
            \o If(RLt(e_diff, R(3, 10)), <<"Compatible social energy">>)
            \o If(RLe(R(7, 10), attach_score), <<"Healthy attachment dynamics">>)
    IN  Ok(Mean(scores), compatibilities)

\* key.replace("_", " ").title()
ReadableKey(key) ==
    CASE key = "career_importance" -> "Career Importance"
      [] key = "family_importance" -> "Family Importance"
      [] key = "adventure_importance" -> "Adventure Importance"
      [] key = "stability_importance" -> "Stability Importance"
      [] OTHER -> key

\* One pass of the loop over common_keys: acc = <<scores, compatibilities>>
RECURSIVE ValuesLoop(_, _, _, _)
ValuesLoop(a, b, keys, acc) ==
    IF keys = <<>> THEN acc
    ELSE
        LET key == Head(keys)
            va == ValueOf(a.values, key)
            vb == ValueOf(b.values, key)
        IN  IF va.t # "num" \/ vb.t # "num"
            THEN ValuesLoop(a, b, Tail(keys), acc)
            ELSE
                LET similarity == RSub(ROne, R(AbsInt(va.v - vb.v), 10))
                    sc == Append(acc[1], RMax(RZero, similarity))
                    ev == IF RLt(R(8, 10), similarity)
                          THEN Append(acc[2], "Aligned on " \o ReadableKey(key))
                          ELSE acc[2]
                IN  ValuesLoop(a, b, Tail(keys), <<sc, ev>>)

\* Mutant: no neutral default, an empty list of scores gives 0
calculate_values_compatibility_zero(order, a, b) ==
    LET res == ValuesLoop(a, b, SetIter(order, Keys(a.values) \cap Keys(b.values)),
                          <<<<>>, <<>>>>)
    IN  Ok(IF res[1] # <<>> THEN Mean(res[1]) ELSE RZero, Take(res[2], 3))

calculate_values_compatibility(order, a, b) ==
    IF a.values = <<>> \/ b.values = <<>> THEN Ok(RHalf, <<>>)
    ELSE
        LET common_keys == Keys(a.values) \cap Keys(b.values)
        IN  IF common_keys = {} THEN Ok(RHalf, <<>>)
            ELSE
                LET res == ValuesLoop(a, b, SetIter(order, common_keys), <<<<>>, <<>>>>)
                IN  Ok(IF res[1] # <<>> THEN Mean(res[1]) ELSE RHalf, Take(res[2], 3))

calculate_lifestyle_compatibility(a, b) ==
    LET kids ==
            IF ~IsNone(a.wants_kids) /\ ~IsNone(b.wants_kids)
            THEN IF Get(a.wants_kids) = Get(b.wants_kids)
                 THEN << <<ROne>>,
                         IF Get(a.wants_kids) THEN <<"Both want children">>
                                              ELSE <<"Both childfree">> >>
                 ELSE << <<R(2, 10)>>, <<>> >>
            ELSE << <<>>, <<>> >>
        drink ==
            IF ~IsNone(a.drinks) /\ ~IsNone(b.drinks)
            THEN LET drink_diff == R(AbsInt(Get(a.drinks) - Get(b.drinks)), 3)
                 IN  << <<RSub(ROne, drink_diff)>>,
                        If(RLe(drink_diff, R(33, 100)), <<"Similar drinking habits">>) >>
            ELSE << <<>>, <<>> >>
        smoke ==
            IF ~IsNone(a.smokes) /\ ~IsNone(b.smokes)
            THEN LET smoke_diff == R(AbsInt(Get(a.smokes) - Get(b.smokes)), 3)
                 IN  << <<RSub(ROne, smoke_diff)>>,
                        If(RLe(smoke_diff, R(33, 100)), <<"Similar smoking habits">>) >>
            ELSE << <<>>, <<>> >>
        religion ==
            IF ~IsNone(a.religion) /\ ~IsNone(b.religion)
            THEN IF Get(a.religion) = Get(b.religion)
                 THEN << <<ROne>>, <<"Shared faith">> >>
                 ELSE << <<RHalf>>, <<>> >>
            ELSE << <<>>, <<>> >>
        interests ==
            IF a.interests # <<>> /\ b.interests # <<>>
            THEN LET common == Range(a.interests) \cap Range(b.interests)
                     total == Range(a.interests) \cup Range(b.interests)
                     interest_score ==
                         IF total # {} THEN R(Cardinality(common), Cardinality(total))
                         ELSE RHalf
                 IN  << <<interest_score>>,
                        If(RLt(R(3, 10), interest_score), <<"Shared hobbies and interests">>) >>
            ELSE << <<>>, <<>> >>
        scores == kids[1] \o drink[1] \o smoke[1] \o religion[1] \o interests[1]
        compatibilities == kids[2] \o drink[2] \o smoke[2] \o religion[2] \o interests[2]
    IN  Ok(IF scores # <<>> THEN Mean(scores) ELSE RHalf, Take(compatibilities, 3))

(***************************************************************************)
(* Geolocations are [lat, lon] in 1/10000 degree.  The haversine formula   *)
(* (Earth radius 6371 km) is tabulated for the places the model uses, in   *)
(* km rounded to 10 m: New York 40.7128,-74.0060; New York uptown          *)
(* 40.7300,-74.0100 (1.94 km away); Los Angeles 34.0522,-118.2437          *)
(* (3935.75 km and 3935.29 km away).                                       *)
(***************************************************************************)
NewYork == [lat |-> 407128, lon |-> -740060]
Uptown == [lat |-> 407300, lon |-> -740100]
LosAngeles == [lat |-> 340522, lon |-> -1182437]

\* Mutant: every two places are at distance 0
HaversineZero(p, q) == RZero

Haversine(p, q) ==
    CASE p = q -> RZero
      [] {p, q} = {NewYork, Uptown} -> R(194, 100)
      [] {p, q} = {NewYork, LosAngeles} -> R(393575, 100)
      [] {p, q} = {Uptown, LosAngeles} -> R(393529, 100)

In(x, s) == \E i \in 1..Len(s) : s[i] = x

calculate_circumstantial_score(a, b) ==
    LET distance_km == Haversine(a.location, b.location)
        max_dist == IF a.max_distance_km < b.max_distance_km
                    THEN a.max_distance_km ELSE b.max_distance_km
        age_ok_a == a.preferred_age_min <= b.age /\ b.age <= a.preferred_age_max
        age_ok_b == b.preferred_age_min <= a.age /\ a.age <= b.preferred_age_max
        gender_ok_a == a.preferred_gender = <<>> \/ In(b.gender, a.preferred_gender)
        gender_ok_b == b.preferred_gender = <<>> \/ In(a.gender, b.preferred_gender)
        age == IF age_ok_a /\ age_ok_b
               THEN << ROne, If(AbsInt(a.age - b.age) <= 3, <<"Similar age">>) >>
               ELSE << R(2, 10), <<>> >>
        gender == IF gender_ok_a /\ gender_ok_b THEN ROne ELSE RZero
    IN  IF RLe(distance_km, RInt(max_dist))
        THEN IF max_dist = 0 THEN Raise("ZeroDivisionError")
             ELSE LET dist_score == RSub(ROne, RMul(RDivInt(distance_km, max_dist), RHalf))
                  IN  Ok(Mean(<<dist_score, age[1], gender>>),
                         If(RLt(distance_km, RInt(25)), <<"Live nearby">>) \o age[2])
        ELSE Ok(Mean(<<R(3, 10), age[1], gender>>), age[2])

\* Mutant: the average reputation is not scaled to [0, 1]
calculate_attraction_score_unscaled(a, b) ==
    LET verified == IF a.is_video_verified /\ b.is_video_verified THEN ROne
                    ELSE IF a.is_video_verified \/ b.is_video_verified THEN R(7, 10)
                    ELSE RHalf
        rep_avg == R(a.reputation_score + b.reputation_score, 2)
    IN  Mean(<<verified, rep_avg>>)

\* Mutant: only the first profile's reputation counts
calculate_attraction_score_own(a, b) ==
    LET verified == IF a.is_video_verified /\ b.is_video_verified THEN ROne
                    ELSE IF a.is_video_verified \/ b.is_video_verified THEN R(7, 10)
                    ELSE RHalf
        rep_score == R(a.reputation_score, 100)
    IN  Mean(<<verified, rep_score>>)

calculate_attraction_score(a, b) ==
    LET verified == IF a.is_video_verified /\ b.is_video_verified THEN ROne
                    ELSE IF a.is_video_verified \/ b.is_video_verified THEN R(7, 10)
                    ELSE RHalf
        rep_avg == R(a.reputation_score + b.reputation_score, 2)
        rep_score == RDivInt(rep_avg, 100)
    IN  Mean(<<verified, rep_score>>)

calculate_growth_potential(a, b) ==
    LET growth_areas ==
            IF a.extraversion > 60 /\ b.extraversion < 40
            THEN <<"Social balance - introvert/extrovert dynamic">>
            ELSE If(b.extraversion > 60 /\ a.extraversion < 40,
                    <<"Social balance - introvert/extrovert dynamic">>)
        challenges ==
            (IF a.openness > 70 /\ b.openness < 50
             THEN <<"May disagree on trying new experiences">>
             ELSE If(b.openness > 70 /\ a.openness < 50,
                     <<"May disagree on trying new experiences">>))
            \o If(a.neuroticism > 60 /\ b.neuroticism > 60,
                  <<"Both may need extra emotional support">>)
            \o If(a.conscientiousness > 70 /\ b.conscientiousness < 40,
                  <<"Different approaches to planning and organization">>)
            \o If(a.attachment_style = "ANXIOUS" /\ b.attachment_style = "AVOIDANT",
                  <<"Classic anxious-avoidant dynamic - requires awareness">>)
        growth_score == RSub(RAdd(RHalf, R(2 * Len(growth_areas), 10)),
                             R(Len(challenges), 10))
    IN  Ok(RMax(RZero, RMin(ROne, growth_score)), challenges)

\* Mutant: the intro band is chosen from the rounded score
generate_compatibility_explanation_rounded(overall, personality, values, lifestyle, compatibilities, challenges) ==
    [ intro |->
          IF Round1(overall) >= 850 THEN "Exceptional"
          ELSE IF Round1(overall) >= 750 THEN "Strong"
          ELSE IF Round1(overall) >= 650 THEN "Good"
          ELSE IF Round1(overall) >= 500 THEN "Moderate"
          ELSE "different perspectives",
      details |->
          If(RLe(R(75, 100), personality), <<"Your personalities complement each other well">>)
          \o If(RLe(R(75, 100), values), <<"You share important life values">>)
          \o If(RLe(R(75, 100), lifestyle), <<"Your lifestyles are well-aligned">>),
      strengths |-> Take(compatibilities, 3),
      awareness |-> Take(challenges, 2) ]

generate_compatibility_explanation(overall, personality, values, lifestyle, compatibilities, challenges) ==
    [ intro |->
          IF RLe(R(85, 100), overall) THEN "Exceptional"
          ELSE IF RLe(R(75, 100), overall) THEN "Strong"
          ELSE IF RLe(R(65, 100), overall) THEN "Good"
          ELSE IF RLe(R(50, 100), overall) THEN "Moderate"
          ELSE "different perspectives",
      details |->
          If(RLe(R(75, 100), personality), <<"Your personalities complement each other well">>)
          \o If(RLe(R(75, 100), values), <<"You share important life values">>)
          \o If(RLe(R(75, 100), lifestyle), <<"Your lifestyles are well-aligned">>),
      strengths |-> Take(compatibilities, 3),
      awareness |-> Take(challenges, 2) ]

calculate_full_compatibility(order, a, b) ==
    LET personality == calculate_personality_compatibility(a, b)
        values == calculate_values_compatibility(order, a, b)
        lifestyle == calculate_lifestyle_compatibility(a, b)
        circumstantial == calculate_circumstantial_score(a, b)
        attraction_score == calculate_attraction_score(a, b)
        growth == calculate_growth_potential(a, b)
        overall ==
            RSum(<< RMul(PERSONALITY_WEIGHT, personality.score),
                    RMul(VALUES_WEIGHT, values.score),
                    RMul(LIFESTYLE_WEIGHT, lifestyle.score),
                    RMul(ATTRACTION_WEIGHT, attraction_score),
                    RMul(CIRCUMSTANTIAL_WEIGHT, circumstantial.score) >>)
        all_compatibilities == personality.ev \o values.ev \o lifestyle.ev \o circumstantial.ev
        top_compatibilities == Take(all_compatibilities, 5)
    IN  [ err |-> circumstantial.err,
          values_score |-> Round1(values.score),
          lifestyle_score |-> Round1(lifestyle.score),
          personality_score |-> Round1(personality.score),
          attraction_score |-> Round1(attraction_score),
          circumstantial_score |-> Round1(circumstantial.score),
          growth_score |-> Round1(growth.score),
          overall_score |-> Round1(overall),
          top_compatibilities |-> top_compatibilities,
          potential_challenges |-> growth.ev,
          explanation |-> generate_compatibility_explanation(
              overall, personality.score, values.score, lifestyle.score,
              top_compatibilities, growth.ev) ]

(***************************************************************************)
(* Conversation starters                                                   *)
(***************************************************************************)
\* "k in a.values and k in b.values" and then a.values.get(k, 0) > 7 and
\* b.values.get(k, 0) > 7: "raise" when a str is compared with 7
BothAbove7(a, b, k) ==
    IF k \in Keys(a.values) /\ k \in Keys(b.values)
    THEN LET va == ValueOf(a.values, k)
             vb == ValueOf(b.values, k)
         IN  IF va.t # "num" THEN "raise"
             ELSE IF va.v <= 7 THEN "no"
             ELSE IF vb.t # "num" THEN "raise"
             ELSE IF vb.v > 7 THEN "yes" ELSE "no"
    ELSE "no"

RECURSIVE FillDefaults(_, _)
FillDefaults(starters, default_starters) ==
    IF Len(starters) < 5 /\ default_starters # <<>>
    THEN FillDefaults(Append(starters, Head(default_starters)), Tail(default_starters))
    ELSE starters

generate_conversation_starters(a, b, compat) ==
    LET career == BothAbove7(a, b, "career_importance")
        adventure == BothAbove7(a, b, "adventure_importance")
        starters ==
            If(Range(a.interests) \cap Range(b.interests) # {},
               <<"I noticed we share some hobbies! What got you into them?">>)
            \o If(a.openness > 70 /\ b.openness > 70,
                  << "What's the most interesting thing you've learned recently?",
                     "If you could travel anywhere tomorrow, where would you go?" >>)
            \o (IF a.extraversion > 60 /\ b.extraversion > 60
                THEN <<"What's your ideal weekend look like?">>
                ELSE If(a.extraversion < 40 /\ b.extraversion < 40,
                        <<"What's your favorite way to unwind after a long day?">>))
            \o If(a.conscientiousness > 60 /\ b.conscientiousness > 60,
                  <<"What's something you're working toward right now?">>)
            \o If(career = "yes", <<"What do you love most about what you do?">>)
            \o If(adventure = "yes", <<"What's been your best adventure so far?">>)
        default_starters ==
            << "What's something that made you smile today?",
               "I'd love to hear the story behind your photos!",
               "What are you most passionate about right now?" >>
    IN  IF career = "raise" \/ adventure = "raise"
        THEN [err |-> "TypeError", starters |-> <<>>]
        ELSE [err |-> "", starters |-> Take(FillDefaults(starters, default_starters), 5)]

(***************************************************************************)
(* Embedding generation.  A vector is a sequence of EMBEDDING_DIM entries, *)
(* slot i of the code being entry i + 1.                                   *)
(***************************************************************************)
NaN == <<0, 0>>
IsNaN(x) == x[2] = 0
FAdd(x, y) == IF IsNaN(x) \/ IsNaN(y) THEN NaN ELSE RAdd(x, y)
FMul(x, y) == IF IsNaN(x) \/ IsNaN(y) THEN NaN ELSE RMul(x, y)

max_interests == 100

attachment_encodings(style) ==
    CASE style = "SECURE" -> <<ROne, RZero, RZero, RZero>>
      [] style = "ANXIOUS" -> <<RZero, ROne, RZero, RZero>>
      [] style = "AVOIDANT" -> <<RZero, RZero, ROne, RZero>>
      [] style = "DISORGANIZED" -> <<RZero, RZero, RZero, ROne>>
      [] OTHER -> <<RZero, RZero, RZero, RZero>>

generate_personality_embedding(profile) ==
    LET big_five == << R(profile.openness - 50, 50),
                       R(profile.conscientiousness - 50, 50),
                       R(profile.extraversion - 50, 50),
                       R(profile.agreeableness - 50, 50),
                       R(profile.neuroticism - 50, 50) >>
        personality_vec == big_five \o attachment_encodings(profile.attachment_style)
    IN  [i \in 1..EMBEDDING_DIM |->
            IF i <= Len(personality_vec) THEN personality_vec[i] ELSE RZero]

\* np.mean(interest_vec[start:end]): NaN for an empty slice
generate_interest_embedding(interests) ==
    LET interest_vec == [j \in 0..(max_interests - 1) |->
                            IF j \in Range(interests) THEN 1 ELSE 0]
        step == IF max_interests \div EMBEDDING_DIM > 1
                THEN max_interests \div EMBEDDING_DIM ELSE 1
        bucket(i) ==
            LET start == i * step
                end == IF start + step < max_interests THEN start + step
                       ELSE max_interests
                ones == Cardinality({j \in start..(end - 1) : interest_vec[j] = 1})
            IN  IF start >= end THEN NaN ELSE R(ones, end - start)
    IN  [i \in 1..EMBEDDING_DIM |-> bucket(i - 1)]

value_keys ==
    << "career_importance", "family_importance", "adventure_importance",
       "stability_importance", "growth_importance", "independence_importance",
       "community_importance", "creativity_importance", "health_importance",
       "spirituality_importance", "wealth_importance", "legacy_importance" >>

generate_values_embedding(values) ==
    [i \in 1..EMBEDDING_DIM |->
        IF i <= Len(value_keys) /\ value_keys[i] \in Keys(values)
           /\ ValueOf(values, value_keys[i]).t = "num"
        THEN R(ValueOf(values, value_keys[i]).v, 10)
        ELSE RZero]

RECURSIVE SumSquares(_, _)
SumSquares(v, i) ==
    IF i = 0 THEN RZero ELSE FAdd(FMul(v[i], v[i]), SumSquares(v, i - 1))

\* The result is [vec, norm2, normalized]: the combined vector, the square of
\* np.linalg.norm(combined), and whether "norm > 0" held, in which case the
\* vector returned is vec / sqrt(norm2).  A NaN entry makes the norm NaN, and
\* NaN > 0 is false.
generate_user_embedding(profile) ==
    LET personality_emb == generate_personality_embedding(profile)
        interest_emb == generate_interest_embedding(profile.interests)
        values_emb == generate_values_embedding(profile.values)
        combined == [i \in 1..EMBEDDING_DIM |->
                        FAdd(FAdd(FMul(PERSONALITY_WEIGHT, personality_emb[i]),
                                  FMul(VALUES_WEIGHT, values_emb[i])),
                             FMul(LIFESTYLE_WEIGHT, interest_emb[i]))]
        norm2 == IF \E i \in 1..EMBEDDING_DIM : IsNaN(combined[i]) THEN NaN
                 ELSE SumSquares(combined, EMBEDDING_DIM)
    IN  [vec |-> combined, norm2 |-> norm2,
         normalized |-> ~IsNaN(norm2) /\ RLt(RZero, norm2)]

\* embedding.tolist(): the floats of the returned vector, each entry with the
\* square of the norm it was divided by (1 when it was not)
tolist(embedding) ==
    [i \in 1..Len(embedding.vec) |->
        [x |-> embedding.vec[i],
         over |-> IF embedding.normalized THEN embedding.norm2 ELSE ROne]]

\* json.dumps of a list of floats: one token per float, NaN written as NaN
json_dumps(list) ==
    [i \in 1..Len(list) |->
        IF IsNaN(list[i].x) THEN [tok |-> "NaN", x |-> RZero, over |-> ROne]
        ELSE [tok |-> "num", x |-> list[i].x, over |-> list[i].over]]

json_loads(text) ==
    [i \in 1..Len(text) |->
        IF text[i].tok = "NaN" THEN [x |-> NaN, over |-> ROne]
        ELSE [x |-> text[i].x, over |-> text[i].over]]

(***************************************************************************)
(* Profiles the requests are drawn from: the three profiles of the         *)
(* service's tests and variants of them.                                   *)
(***************************************************************************)
ProfileA ==
    [ user_id |-> 1, uuid |-> "a1b2c3d4", age |-> 28, gender |-> "female",
      location |-> NewYork,
      openness |-> 80, conscientiousness |-> 70, extraversion |-> 60,
      agreeableness |-> 75, neuroticism |-> 30, attachment_style |-> "SECURE",
      interests |-> <<1, 5, 10, 15, 20>>,
      values |-> << Item("career_importance", Num(7)), Item("family_importance", Num(8)),
                    Item("adventure_importance", Num(9)),
                    Item("stability_importance", Num(6)) >>,
      wants_kids |-> <<TRUE>>, has_kids |-> FALSE, drinks |-> <<1>>, smokes |-> <<0>>,
      religion |-> <<>>, preferred_age_min |-> 25, preferred_age_max |-> 35,
      preferred_gender |-> <<"male">>, max_distance_km |-> 50,
      reputation_score |-> 85, is_video_verified |-> TRUE ]

ProfileB ==
    [ user_id |-> 2, uuid |-> "b2c3d4e5", age |-> 30, gender |-> "male",
      location |-> Uptown,
      openness |-> 75, conscientiousness |-> 65, extraversion |-> 55,
      agreeableness |-> 70, neuroticism |-> 35, attachment_style |-> "SECURE",
      interests |-> <<1, 5, 12, 15, 25>>,
      values |-> << Item("career_importance", Num(8)), Item("family_importance", Num(7)),
                    Item("adventure_importance", Num(8)),
                    Item("stability_importance", Num(7)) >>,
      wants_kids |-> <<TRUE>>, has_kids |-> FALSE, drinks |-> <<1>>, smokes |-> <<0>>,
      religion |-> <<>>, preferred_age_min |-> 24, preferred_age_max |-> 34,
      preferred_gender |-> <<"female">>, max_distance_km |-> 50,
      reputation_score |-> 80, is_video_verified |-> TRUE ]

ProfileC ==
    [ user_id |-> 3, uuid |-> "c3d4e5f6", age |-> 45, gender |-> "male",
      location |-> LosAngeles,
      openness |-> 30, conscientiousness |-> 40, extraversion |-> 20,
      agreeableness |-> 40, neuroticism |-> 70, attachment_style |-> "AVOIDANT",
      interests |-> <<50, 51, 52>>,
      values |-> << Item("career_importance", Num(3)), Item("family_importance", Num(2)),
                    Item("adventure_importance", Num(2)) >>,
      wants_kids |-> <<FALSE>>, has_kids |-> TRUE, drinks |-> <<3>>, smokes |-> <<2>>,
      religion |-> <<1>>, preferred_age_min |-> 35, preferred_age_max |-> 50,
      preferred_gender |-> <<"female">>, max_distance_km |-> 25,
      reputation_score |-> 45, is_video_verified |-> FALSE ]

WithTraits(p, o, c, e, a, n, style) ==
    [p EXCEPT !.openness = o, !.conscientiousness = c, !.extraversion = e,
              !.agreeableness = a, !.neuroticism = n, !.attachment_style = style]

\* Every optional field null, every collection empty, no preference
Bare(p) ==
    [p EXCEPT !.interests = <<>>, !.values = <<>>, !.wants_kids = <<>>,
              !.drinks = <<>>, !.smokes = <<>>, !.religion = <<>>,
              !.preferred_gender = <<>>]

ProfileLow ==
    [WithTraits(Bare(ProfileC), 0, 0, 0, 0, 100, "ANXIOUS")
        EXCEPT !.user_id = 4, !.reputation_score = 0, !.max_distance_km = 1]

ProfileHigh ==
    [WithTraits(ProfileA, 100, 100, 100, 100, 100, "AVOIDANT")
        EXCEPT !.user_id = 5, !.reputation_score = 100, !.drinks = <<3>>,
               !.smokes = <<3>>, !.religion = <<2>>,
               !.values = << Item("career_importance", Num(10)),
                             Item("stability_importance", Num(0)) >>]

ProfileCalm ==
    [WithTraits(ProfileB, 100, 100, 80, 100, 0, "SECURE")
        EXCEPT !.user_id = 6, !.reputation_score = 100, !.location = NewYork,
               !.drinks = <<0>>, !.smokes = <<0>>, !.religion = <<2>>,
               !.values = << Item("career_importance", Num(10)),
                             Item("stability_importance", Num(0)) >>]

\* Degraded input: an unrecognized attachment tag and non-numeric values
ProfileText ==
    [ProfileB EXCEPT !.user_id = 7, !.attachment_style = "UNKNOWN",
                     !.values = << Item("career_importance", Str),
                                   Item("family_importance", Num(8)),
                                   Item("adventure_importance", Num(9)) >>]

ProfileAdventureText ==
    [ProfileA EXCEPT !.user_id = 8,
                     !.values = << Item("career_importance", Num(9)),
                                   Item("adventure_importance", Str) >>]

\* max_distance_km = 0, at the place of ProfileA
ProfileHere ==
    [ProfileB EXCEPT !.user_id = 9, !.location = NewYork, !.max_distance_km = 0]

ProfileA2 == [WithTraits(ProfileA, 20, 90, 10, 50, 60, "ANXIOUS") EXCEPT !.interests = <<>>]

\* ProfileA living in Los Angeles, not wanting children, with one value key
ProfileAway ==
    [ProfileA EXCEPT !.user_id = 10, !.location = LosAngeles, !.wants_kids = <<FALSE>>,
                     !.values = << Item("family_importance", Num(5)) >>]

\* A user like ProfileA2 with agreeableness 70 and reputation 83: against
\* ProfileA the weighted sum is 0.84966..., just under the 0.85 threshold
ProfileEdge ==
    [ProfileA2 EXCEPT !.user_id = 11, !.agreeableness = 70, !.reputation_score = 83]

ValueKeys ==
    {"career_importance", "family_importance", "adventure_importance",
     "stability_importance"}

\* A valid profile: every field in its documented range
Valid(p) ==
    /\ \A t \in {p.openness, p.conscientiousness, p.extraversion, p.agreeableness,
                 p.neuroticism, p.reputation_score} : t >= 0 /\ t <= 100
    /\ \A f \in {p.drinks, p.smokes} : IsNone(f) \/ Get(f) \in 0..3
    /\ p.location.lat >= -900000 /\ p.location.lat <= 900000
    /\ p.location.lon >= -1800000 /\ p.location.lon <= 1800000
    /\ p.max_distance_km > 0

(***************************************************************************)
(* The service.  Procs are the service processes (replicas); a process     *)
(* that was never started has hashOrder[p] = <<>>.  last[p] is the request *)
(* process p is handling with the response its handler returned, until the *)
(* response is sent.  redis_client is the content of the Redis database:   *)
(* key (the user id of "user_embedding:<id>") to [val, ex].  Handlers hold *)
(* no await, so each runs as one step.  written is a history variable:     *)
(* per user id, the profile of the latest setex that has not expired.      *)
(***************************************************************************)
Procs == {"w1", "w2"}
Idle == [op |-> "idle"]
Running(p) == hashOrder[p] # <<>>
Ready(p) == Running(p) /\ last[p] = Idle

HTTPException(code, detail) == [status |-> code, body |-> [detail |-> detail]]
Http200(body) == [status |-> 200, body |-> body]

\* Mutant: recommend_matches sorts request.candidates in place
ArgsAfterSorted(op, req) ==
    IF op = "recommend"
    THEN [req EXCEPT !.candidates = [i \in 1..Len(@) |-> @[Len(@) + 1 - i]]]
    ELSE req

\* The request object after the handler returned.  No statement of a handler
\* or of a function it calls assigns to a field of a profile or of the
\* request: the lists they append to, sort and pop from (scores,
\* compatibilities, starters, default_starters, candidates,
\* scored_candidates, recommendations) are built by them.
ArgsAfter(op, req) == req

\* sent is the request as it was received, req the request object after the
\* handler returned
Handled(p, op, req, resp) ==
    last' = [last EXCEPT ![p] = [op |-> op, sent |-> req, req |-> ArgsAfter(op, req),
                                 resp |-> resp]]

\* POST /compatibility
calculate_compatibility(order, request) ==
    LET result == calculate_full_compatibility(order, request.user_a, request.user_b)
    IN  IF result.err # "" THEN HTTPException(500, result.err) ELSE Http200(result)

\* POST /conversation-starters
get_conversation_starters(order, request) ==
    LET compat == calculate_full_compatibility(order, request.user_a, request.user_b)
        res == generate_conversation_starters(request.user_a, request.user_b, compat)
    IN  IF compat.err # "" THEN HTTPException(500, compat.err)
        ELSE IF res.err # "" THEN HTTPException(500, res.err)
        ELSE Http200([starters |-> res.starters])

\* One pass of the loop body: the entry appended to scored_candidates, with
\* the exception the pass raised, if any
ScoredCandidate(candidate, compat, res) ==
    [ err |-> IF compat.err # "" THEN compat.err ELSE res.err,
      candidate |-> candidate, compatibility |-> compat, starters |-> res.starters ]

WithStarters(user, candidate, compat) ==
    ScoredCandidate(candidate, compat, generate_conversation_starters(user, candidate, compat))

ScoreOne(order, user, candidate) ==
    WithStarters(user, candidate, calculate_full_compatibility(order, user, candidate))

\* except Exception: continue
Continue(sc, rest) ==
    IF sc.err # "" THEN rest ELSE [rest EXCEPT !.scored = <<sc>> \o @]

\* Mutant: no try/except around one candidate, the exception ends the loop
Propagate(sc, rest) ==
    IF sc.err # "" THEN [err |-> sc.err, scored |-> <<>>]
    ELSE IF rest.err # "" THEN rest
    ELSE [rest EXCEPT !.scored = <<sc>> \o @]

RECURSIVE ScoreCandidatesNoTry(_, _, _)
ScoreCandidatesNoTry(order, user, candidates) ==
    IF candidates = <<>> THEN [err |-> "", scored |-> <<>>]
    ELSE Propagate(ScoreOne(order, user, Head(candidates)),
                   ScoreCandidatesNoTry(order, user, Tail(candidates)))

\* The loop over the candidates, with its try/except around one candidate
RECURSIVE ScoreCandidates(_, _, _)
ScoreCandidates(order, user, candidates) ==
    IF candidates = <<>> THEN [err |-> "", scored |-> <<>>]
    ELSE Continue(ScoreOne(order, user, Head(candidates)),
                  ScoreCandidates(order, user, Tail(candidates)))

\* Mutant: an unstable sort, an item goes before the items of equal score
RECURSIVE InsertSortedUnstable(_, _)
InsertSortedUnstable(sorted, x) ==
    IF sorted = <<>> THEN <<x>>
    ELSE IF Head(sorted).compatibility.overall_score > x.compatibility.overall_score
         THEN <<Head(sorted)>> \o InsertSortedUnstable(Tail(sorted), x)
         ELSE <<x>> \o sorted

\* list.sort(key = overall_score, reverse = True): stable, descending
RECURSIVE InsertSorted(_, _)
InsertSorted(sorted, x) ==
    IF sorted = <<>> THEN <<x>>
    ELSE IF Head(sorted).compatibility.overall_score >= x.compatibility.overall_score
         THEN <<Head(sorted)>> \o InsertSorted(Tail(sorted), x)
         ELSE <<x>> \o sorted

RECURSIVE SortDescending(_, _)
SortDescending(done, todo) ==
    IF todo = <<>> THEN done
    ELSE SortDescending(InsertSorted(done, Head(todo)), Tail(todo))

\* Mutant: every entry of top_compatibilities is given as a match reason
MatchRecommendation_allReasons(sc) ==
    [ user_id |-> sc.candidate.user_id, uuid |-> sc.candidate.uuid,
      compatibility_score |-> sc.compatibility.overall_score,
      match_reasons |-> sc.compatibility.top_compatibilities,
      conversation_starters |-> sc.starters ]

MatchRecommendation(sc) ==
    [ user_id |-> sc.candidate.user_id, uuid |-> sc.candidate.uuid,
      compatibility_score |-> sc.compatibility.overall_score,
      match_reasons |-> Take(sc.compatibility.top_compatibilities, 3),
      conversation_starters |-> sc.starters ]

\* The recommendations built from the top of the sorted list
Recommendations(top) == Http200([i \in 1..Len(top) |-> MatchRecommendation(top[i])])

\* Sort, slice and return; an exception that left the loop is the 500 of the
\* outer except
TopN(res, limit) ==
    IF res.err # "" THEN HTTPException(500, res.err)
    ELSE Recommendations(Slice(SortDescending(<<>>, res.scored), limit))

\* [c for c in request.candidates if c.user_id not in request.excluded_user_ids]
NotExcluded(request) ==
    SelectSeq(request.candidates, LAMBDA c : c.user_id \notin request.excluded_user_ids)

\* Mutant: the excluded ids are not filtered out
recommend_matches_unfiltered(order, request) ==
    IF request.candidates = <<>> THEN Http200(<<>>)
    ELSE TopN(ScoreCandidates(order, request.user, request.candidates), request.limit)

\* POST /matches/recommend
recommend_matches(order, request) ==
    IF NotExcluded(request) = <<>> THEN Http200(<<>>)
    ELSE TopN(ScoreCandidates(order, request.user, NotExcluded(request)), request.limit)

\* setex(name, time, value) and get(name) of the Redis client
CACHE_SECONDS == 86400
\* Mutant: an entry that exists is not overwritten (SET NX)
setnx(store, name, time, value) ==
    IF store[name] # <<>> THEN store
    ELSE [store EXCEPT ![name] = <<[val |-> value, ex |-> time]>>]

\* Mutant: the write drops the entries of the other keys
setex_flush(store, name, time, value) ==
    [n \in DOMAIN store |-> IF n = name THEN <<[val |-> value, ex |-> time]>> ELSE <<>>]

setex(store, name, time, value) == [store EXCEPT ![name] = <<[val |-> value, ex |-> time]>>]

\* POST /embedding/generate: [resp, store, wrote]
generate_embedding(avail, up, store, profile) ==
    LET embedding == generate_user_embedding(profile)
    IN  IF avail /\ ~up
        THEN [resp |-> HTTPException(500, "ConnectionError"), store |-> store,
              wrote |-> FALSE]
        ELSE [resp |-> Http200([user_id |-> profile.user_id,
                                embedding_dim |-> Len(embedding.vec),
                                cached |-> avail]),
              store |-> IF avail
                        THEN setex(store, profile.user_id, CACHE_SECONDS,
                                   json_dumps(tolist(embedding)))
                        ELSE store,
              wrote |-> avail]

\* GET /embedding/{user_id}; the handler has no try, so a failing Redis call
\* leaves it as an unhandled exception (status 500)
get_embedding(avail, up, store, user_id) ==
    IF ~avail THEN HTTPException(503, "Redis not available")
    ELSE IF ~up THEN HTTPException(500, "ConnectionError")
    ELSE IF store[user_id] = <<>> THEN HTTPException(404, "Embedding not found")
    ELSE Http200([user_id |-> user_id, embedding |-> json_loads(store[user_id][1].val)])

\* sklearn's cosine_similarity of two 1 x n arrays.  Its input validation
\* raises ValueError when an array holds NaN.  Otherwise the result is
\* [sign, sq]: the sign of the dot product and the square of the cosine; a
\* zero vector has similarity 0.
RECURSIVE Dot(_, _, _)
Dot(u, v, i) ==
    IF i = 0 THEN RZero ELSE RAdd(RMul(u[i].x, v[i].x), Dot(u, v, i - 1))

HasNaN(list) == \E i \in 1..Len(list) : IsNaN(list[i].x)

SimOf(dot, uu, vv) ==
    IF uu[1] = 0 \/ vv[1] = 0 \/ dot[1] = 0 THEN [sign |-> 0, sq |-> RZero]
    ELSE [sign |-> IF dot[1] > 0 THEN 1 ELSE -1,
          sq |-> R(RMul(dot, dot)[1] * RMul(uu, vv)[2], RMul(dot, dot)[2] * RMul(uu, vv)[1])]

cosine_similarity(u, v) ==
    IF HasNaN(u) \/ HasNaN(v) THEN [err |-> "ValueError: Input contains NaN", sim |-> <<>>]
    ELSE [err |-> "", sim |-> <<SimOf(Dot(u, v, Len(u)), Dot(u, u, Len(u)), Dot(v, v, Len(v)))>>]

\* x >= y for two similarities
SimGe(x, y) ==
    IF x.sign # y.sign THEN x.sign > y.sign
    ELSE IF x.sign >= 0 THEN RLe(y.sq, x.sq) ELSE RLe(x.sq, y.sq)

\* The loop over candidate_ids: an id without a cached embedding is passed
\* over; the exception of cosine_similarity leaves the loop
AppendSimilarity(cid, sim, rest) ==
    IF sim.err # "" THEN [err |-> sim.err, similarities |-> <<>>]
    ELSE IF rest.err # "" THEN rest
    ELSE [rest EXCEPT !.similarities = <<[user_id |-> cid, similarity |-> sim.sim[1]]>> \o @]

RECURSIVE Similarities(_, _, _)
Similarities(store, user_emb, candidate_ids) ==
    IF candidate_ids = <<>> THEN [err |-> "", similarities |-> <<>>]
    ELSE IF store[Head(candidate_ids)] = <<>>
         THEN Similarities(store, user_emb, Tail(candidate_ids))
         ELSE AppendSimilarity(Head(candidate_ids),
                               cosine_similarity(user_emb,
                                                 json_loads(store[Head(candidate_ids)][1].val)),
                               Similarities(store, user_emb, Tail(candidate_ids)))

\* similarities.sort(key = similarity, reverse = True): stable, descending
RECURSIVE InsertSimilarity(_, _)
InsertSimilarity(sorted, x) ==
    IF sorted = <<>> THEN <<x>>
    ELSE IF SimGe(Head(sorted).similarity, x.similarity)
         THEN <<Head(sorted)>> \o InsertSimilarity(Tail(sorted), x)
         ELSE <<x>> \o sorted

RECURSIVE SortSimilarities(_, _)
SortSimilarities(done, todo) ==
    IF todo = <<>> THEN done
    ELSE SortSimilarities(InsertSimilarity(done, Head(todo)), Tail(todo))

TopK(res, top_k) ==
    IF res.err # "" THEN HTTPException(500, res.err)
    ELSE Http200([similar_users |-> Slice(SortSimilarities(<<>>, res.similarities), top_k)])

\* The body of the try of find_similar_users; an exception is the response
\* it would be if it left the handler
find_similar_try(avail, up, store, request) ==
    IF ~avail THEN HTTPException(503, "Redis not available for similarity search")
    ELSE IF ~up THEN HTTPException(500, "ConnectionError")
    ELSE IF store[request.user_id] = <<>> THEN HTTPException(404, "User embedding not found")
    ELSE TopK(Similarities(store, json_loads(store[request.user_id][1].val),
                           request.candidate_ids),
              request.top_k)

\* except Exception as e: raise HTTPException(status_code=500, detail=str(e));
\* HTTPException is an Exception, so the 503 and the 404 raised in the try
\* are caught here too
Except500(r) == IF r.status # 200 THEN HTTPException(500, r.body.detail) ELSE r

\* POST /similar-users
find_similar_users(avail, up, store, request) ==
    Except500(find_similar_try(avail, up, store, request))

(***************************************************************************)
(* Requests                                                                *)
(***************************************************************************)
MaxCandidates == 3
MaxLimit == 3
MaxNegLimit == 2
MaxSimilar == 2
MaxTopK == 2

ScoreProfiles ==
    {ProfileA, ProfileB, ProfileC, ProfileLow, ProfileHigh, ProfileCalm,
     ProfileText, ProfileAdventureText, ProfileHere, ProfileA2, ProfileAway,
     ProfileEdge}

ReplicaProfiles == {ProfileA, ProfileA2}

RankUsers == {ProfileA, ProfileAdventureText}
RankPool ==
    {[ProfileB EXCEPT !.user_id = 20], [ProfileB EXCEPT !.user_id = 21],
     ProfileC, ProfileHere}
ExcludedIds == {20, 3}

EmbeddingProfiles == {ProfileA, ProfileA2, ProfileB, [ProfileLow EXCEPT !.user_id = 2]}
UserIds == {1, 2, 3}

\* Lists of at most n distinct candidates
RECURSIVE Lists(_, _)
Lists(S, n) ==
    IF n = 0 THEN {<<>>}
    ELSE {<<>>} \cup UNION {{<<x>> \o l : l \in Lists(S \ {x}, n - 1)} : x \in S}

(***************************************************************************)
(* Actions                                                                 *)
(***************************************************************************)
Init ==
    /\ hashOrder = [p \in Procs |-> <<>>]
    /\ REDIS_AVAILABLE = [p \in Procs |-> FALSE]
    /\ redisUp \in BOOLEAN
    /\ redis_client = [u \in UserIds |-> <<>>]
    /\ last = [p \in Procs |-> Idle]
    /\ written = [u \in UserIds |-> <<>>]

\* The module is loaded: the interpreter draws its hash seed, and
\* REDIS_AVAILABLE is whether the ping succeeded
Start(p, orders) ==
    /\ ~Running(p)
    /\ \E order \in orders : hashOrder' = [hashOrder EXCEPT ![p] = order]
    /\ REDIS_AVAILABLE' = [REDIS_AVAILABLE EXCEPT ![p] = redisUp]
    /\ UNCHANGED <<redisUp, redis_client, last, written>>

Respond(p) ==
    /\ Running(p)
    /\ last[p] # Idle
    /\ last' = [last EXCEPT ![p] = Idle]
    /\ UNCHANGED <<hashOrder, REDIS_AVAILABLE, redisUp, redis_client, written>>

Compatibility(p, profiles) ==
    /\ Ready(p)
    /\ \E a \in profiles, b \in profiles :
          LET request == [user_a |-> a, user_b |-> b]
          IN  Handled(p, "compatibility", request,
                      calculate_compatibility(hashOrder[p], request))
    /\ UNCHANGED <<hashOrder, REDIS_AVAILABLE, redisUp, redis_client, written>>

ConversationStarters(p, profiles) ==
    /\ Ready(p)
    /\ \E a \in profiles, b \in profiles :
          LET request == [user_a |-> a, user_b |-> b]
          IN  Handled(p, "conversation-starters", request,
                      get_conversation_starters(hashOrder[p], request))
    /\ UNCHANGED <<hashOrder, REDIS_AVAILABLE, redisUp, redis_client, written>>

Recommend(p) ==
    /\ Ready(p)
    /\ \E user \in RankUsers, candidates \in Lists(RankPool, MaxCandidates),
          limit \in (-MaxNegLimit)..MaxLimit, excluded \in SUBSET ExcludedIds :
          LET request == [user |-> user, candidates |-> candidates, limit |-> limit,
                          excluded_user_ids |-> excluded]
          IN  Handled(p, "recommend", request, recommend_matches(hashOrder[p], request))
    /\ UNCHANGED <<hashOrder, REDIS_AVAILABLE, redisUp, redis_client, written>>

GenerateEmbedding(p) ==
    /\ Ready(p)
    /\ \E profile \in EmbeddingProfiles :
          LET res == generate_embedding(REDIS_AVAILABLE[p], redisUp, redis_client, profile)
          IN  /\ Handled(p, "generate_embedding", profile, res.resp)
              /\ redis_client' = res.store
              /\ written' = IF res.wrote
                            THEN [written EXCEPT ![profile.user_id] = <<profile>>]
                            ELSE written
    /\ UNCHANGED <<hashOrder, REDIS_AVAILABLE, redisUp>>

GetEmbedding(p) ==
    /\ Ready(p)
    /\ \E user_id \in UserIds :
          Handled(p, "get_embedding", user_id,
                  get_embedding(REDIS_AVAILABLE[p], redisUp, redis_client, user_id))
    /\ UNCHANGED <<hashOrder, REDIS_AVAILABLE, redisUp, redis_client, written>>

FindSimilar(p) ==
    /\ Ready(p)
    /\ \E user_id \in UserIds, candidate_ids \in Lists(UserIds, MaxSimilar),
          top_k \in 0..MaxTopK :
          LET request == [user_id |-> user_id, candidate_ids |-> candidate_ids,
                          top_k |-> top_k]
          IN  Handled(p, "similar-users", request,
                      find_similar_users(REDIS_AVAILABLE[p], redisUp, redis_client, request))
    /\ UNCHANGED <<hashOrder, REDIS_AVAILABLE, redisUp, redis_client, written>>

\* The environment: Redis becomes unreachable or reachable again, an entry
\* reaches its expiry
RedisFails ==
    /\ redisUp
    /\ redisUp' = FALSE
    /\ UNCHANGED <<hashOrder, REDIS_AVAILABLE, redis_client, last, written>>

RedisRecovers ==
    /\ ~redisUp
    /\ redisUp' = TRUE
    /\ UNCHANGED <<hashOrder, REDIS_AVAILABLE, redis_client, last, written>>

Expire(user_id) ==
    /\ redis_client[user_id] # <<>>
    /\ redis_client' = [redis_client EXCEPT ![user_id] = <<>>]
    /\ written' = [written EXCEPT ![user_id] = <<>>]
    /\ UNCHANGED <<hashOrder, REDIS_AVAILABLE, redisUp, last>>

\* Hash orders a process may draw: all of them, and a few of them for the
\* endpoints whose requests are many
AllOrders == Perms(ValueKeys)
KeyOrder == <<"career_importance", "family_importance", "adventure_importance", "stability_importance">>
Reverse(s) == [i \in 1..Len(s) |-> s[Len(s) + 1 - i]]
SomeOrders == {KeyOrder, Reverse(KeyOrder), Tail(KeyOrder) \o <<Head(KeyOrder)>>}

\* The scoring endpoints of one process
Next ==
    \/ Start("w1", AllOrders)
    \/ Compatibility("w1", ScoreProfiles)
    \/ ConversationStarters("w1", ScoreProfiles)
    \/ Respond("w1")

Spec == Init /\ [][Next]_vars

\* Two replicas serving the same requests
NextReplicas ==
    \E p \in Procs :
        \/ Start(p, SomeOrders)
        \/ Compatibility(p, ReplicaProfiles)
        \/ ConversationStarters(p, ReplicaProfiles)
        \/ Respond(p)

SpecReplicas == Init /\ [][NextReplicas]_vars

\* The ranking endpoint of one process
NextRank ==
    \/ Start("w1", SomeOrders)
    \/ Recommend("w1")
    \/ Respond("w1")

SpecRank == Init /\ [][NextRank]_vars

\* The embedding endpoints of one process, and Redis
NextCache ==
    \/ Start("w1", {KeyOrder})
    \/ GenerateEmbedding("w1")
    \/ GetEmbedding("w1")
    \/ FindSimilar("w1")
    \/ Respond("w1")
    \/ RedisFails
    \/ RedisRecovers
    \/ \E u \in UserIds : Expire(u)

SpecCache == Init /\ [][NextCache]_vars

\* The ranking endpoint, which scores every candidate and generates its
\* starters, and the embedding endpoint of one process that was started
\* without Redis
InitNoRedis == Init /\ ~redisUp

NextFrame ==
    \/ Start("w1", {KeyOrder})
    \/ Recommend("w1")
    \/ GenerateEmbedding("w1")
    \/ Respond("w1")

SpecFrame == InitNoRedis /\ [][NextFrame]_vars

(***************************************************************************)
(* Properties                                                              *)
(***************************************************************************)
IsOp(p, op) == last[p].op = op
Min(x, y) == IF x < y THEN x ELSE y
Percent(x) == x >= 0 /\ x <= 1000

\* C1: for every pair of valid profiles, POST /compatibility answers 200 and
\* each of the six sub-scores and overall_score lies in [0, 100] (0..1000
\* tenths).
C1_ScoresInRange ==
    \A p \in Procs :
        (IsOp(p, "compatibility") /\ Valid(last[p].req.user_a) /\ Valid(last[p].req.user_b))
        => /\ last[p].resp.status = 200
           /\ LET r == last[p].resp.body
              IN  /\ Percent(r.values_score) /\ Percent(r.lifestyle_score)
                  /\ Percent(r.personality_score) /\ Percent(r.attraction_score)
                  /\ Percent(r.circumstantial_score) /\ Percent(r.growth_score)
                  /\ Percent(r.overall_score)

C1_Witness ==
    /\ IsOp("w1", "compatibility")
    /\ last["w1"].req = [user_a |-> ProfileCalm, user_b |-> ProfileHigh]
    /\ last["w1"].resp.status = 200
    /\ last["w1"].resp.body.attraction_score = 1000

\* The request and the response of a handled POST /matches/recommend
Ranked(p) == IsOp(p, "recommend") /\ last[p].resp.status = 200
CandidateIds(request) == {request.candidates[i].user_id : i \in 1..Len(request.candidates)}
PositionOf(request, id) ==
    CHOOSE i \in 1..Len(request.candidates) : request.candidates[i].user_id = id

\* C2: the list returned by recommend_matches is non-increasing by
\* compatibility_score, and two returned candidates with equal score appear in
\* the order they had in the request's candidate list.
C2_SortedStable ==
    \A p \in Procs :
        Ranked(p) =>
            LET recs == last[p].resp.body
            IN  \A i \in 1..Len(recs), j \in 1..Len(recs) :
                    i < j =>
                        /\ recs[i].compatibility_score >= recs[j].compatibility_score
                        /\ recs[i].compatibility_score = recs[j].compatibility_score
                           => PositionOf(last[p].req, recs[i].user_id)
                              < PositionOf(last[p].req, recs[j].user_id)

C2_Witness ==
    /\ Ranked("w1")
    /\ Len(last["w1"].resp.body) = 3
    /\ last["w1"].req.candidates[1].user_id = 3
    /\ last["w1"].resp.body[1].user_id = 21
    /\ last["w1"].resp.body[2].user_id = 20
    /\ last["w1"].resp.body[1].compatibility_score = last["w1"].resp.body[2].compatibility_score
    /\ last["w1"].resp.body[3].user_id = 3

\* C3: no recommendation returned by recommend_matches has a user_id in
\* excluded_user_ids, and every returned user_id is the id of a candidate of
\* the request.
C3_ExcludedNeverReturned ==
    \A p \in Procs :
        Ranked(p) =>
            \A i \in 1..Len(last[p].resp.body) :
                /\ last[p].resp.body[i].user_id \notin last[p].req.excluded_user_ids
                /\ last[p].resp.body[i].user_id \in CandidateIds(last[p].req)

C3_Witness ==
    /\ Ranked("w1")
    /\ last["w1"].req.excluded_user_ids = {20}
    /\ 20 \in CandidateIds(last["w1"].req)
    /\ Len(last["w1"].resp.body) = 2

\* The candidates of a request that are not excluded and for which neither
\* the scoring nor the starter generation raises
Scorable(order, user, c) ==
    LET compat == calculate_full_compatibility(order, user, c)
    IN  compat.err = "" /\ generate_conversation_starters(user, c, compat).err = ""
RankableIds(order, request) ==
    {request.candidates[i].user_id : i \in
        {k \in 1..Len(request.candidates) :
            /\ request.candidates[k].user_id \notin request.excluded_user_ids
            /\ Scorable(order, request.user, request.candidates[k])}}

\* C4 as stated: for limit >= 0 the number of recommendations is
\* min(limit, len(candidates)) for the candidate list of the request.
C4_LengthOfRequestList ==
    \A p \in Procs :
        (Ranked(p) /\ last[p].req.limit >= 0)
        => Len(last[p].resp.body) = Min(last[p].req.limit, Len(last[p].req.candidates))

\* C4, amended: for limit >= 0 the number of recommendations is min(limit, n),
\* n being the number of candidates of the request that are not excluded and
\* whose scoring and starter generation raise nothing.
C4_LengthOfRankable ==
    \A p \in Procs :
        (IsOp(p, "recommend") /\ last[p].req.limit >= 0)
        => /\ last[p].resp.status = 200
           /\ Len(last[p].resp.body)
              = Min(last[p].req.limit, Cardinality(RankableIds(hashOrder[p], last[p].req)))

C4_Witness ==
    /\ Ranked("w1")
    /\ last["w1"].req.limit = 3
    /\ CandidateIds(last["w1"].req) = {3, 20, 21}
    /\ last["w1"].req.excluded_user_ids = {3}
    /\ Len(last["w1"].resp.body) = 2

\* C5: for every negative limit and every candidate list, recommend_matches
\* returns an empty list without error.
C5_NegativeLimitEmpty ==
    \A p \in Procs :
        (IsOp(p, "recommend") /\ last[p].req.limit < 0)
        => last[p].resp.status = 200 /\ last[p].resp.body = <<>>

\* C6: a candidate whose scoring or starter generation raises is skipped and
\* the call succeeds: only candidates that are not excluded and score are
\* returned, and all of them when the limit admits them.
C6_FailingCandidateSkipped ==
    \A p \in Procs :
        IsOp(p, "recommend") =>
            /\ last[p].resp.status = 200
            /\ LET returned == {last[p].resp.body[i].user_id : i \in 1..Len(last[p].resp.body)}
                   rankable == RankableIds(hashOrder[p], last[p].req)
               IN  /\ returned \subseteq rankable
                   /\ last[p].req.limit >= Cardinality(rankable) => returned = rankable

C6_Witness ==
    /\ Ranked("w1")
    /\ last["w1"].req.user = ProfileA
    /\ last["w1"].req.excluded_user_ids = {}
    /\ CandidateIds(last["w1"].req) = {9, 20, 3}
    /\ last["w1"].req.candidates[1] = ProfileHere
    /\ last["w1"].req.limit = 3
    /\ Len(last["w1"].resp.body) = 2

\* C7: for every pair of profiles that passes request validation, degraded
\* fields included, POST /compatibility and POST /conversation-starters
\* return a result, not an error.
C7_ScoringNeverRaises ==
    \A p \in Procs :
        (IsOp(p, "compatibility") \/ IsOp(p, "conversation-starters"))
        => last[p].resp.status = 200

\* C8: two evaluations of the same request, possibly in different service
\* processes, return identical responses.
C8_Deterministic ==
    \A p \in Procs, q \in Procs :
        (/\ IsOp(p, "compatibility") \/ IsOp(p, "conversation-starters")
         /\ last[q].op = last[p].op
         /\ last[q].req = last[p].req)
        => /\ last[q].resp.status = last[p].resp.status
           /\ last[q].resp.body = last[p].resp.body

\* C9: generate_embedding handled while the cache is unreachable, whether it
\* was unreachable when the process started or became so later, succeeds and
\* reports cached = false.
C9_UnreachableCacheDegrades ==
    [][ \A p \in Procs :
          (/\ ~redisUp
           /\ last[p] = Idle
           /\ last'[p] # Idle
           /\ last'[p].op = "generate_embedding")
          => /\ last'[p].resp.status = 200
             /\ last'[p].resp.body.cached = FALSE ]_vars

\* The vector generate_user_embedding returns for a profile, as a list
EmbeddingList(profile) == tolist(generate_user_embedding(profile))
Available(p) == REDIS_AVAILABLE[p] /\ redisUp
Handles(p, op) == last[p] = Idle /\ last'[p] # Idle /\ last'[p].op = op

C11_UnavailableDistinctFromAbsent ==
    [][ \A p \in Procs :
          Handles(p, "get_embedding")
          => /\ ~Available(p) => last'[p].resp.status = 503
             /\ (Available(p) /\ redis_client[last'[p].req] = <<>>)
                => last'[p].resp.status = 404 ]_vars

\* C12: find_similar answers dependency-unavailable (503) when the cache is
\* unavailable and not-found (404) when the cache is available and holds no
\* embedding for user_id; neither is reported as the other or as a generic
\* internal error.
C12_SimilarFailuresDistinct ==
    [][ \A p \in Procs :
          Handles(p, "similar-users")
          => /\ ~Available(p) => last'[p].resp.status = 503
             /\ (Available(p) /\ redis_client[last'[p].req.user_id] = <<>>)
                => last'[p].resp.status = 404 ]_vars

\* The ids of a list of (id, similarity) pairs
SimilarIds(list) == {list[i].user_id : i \in 1..Len(list)}

\* C13: with the embeddings of user_id and of every candidate id cached by
\* generate_embedding and top_k >= 0, find_similar succeeds and returns
\* min(top_k, |candidate_ids|) pairs, sorted non-increasing by similarity,
\* each id taken from candidate_ids.
C13_SimilarReturnsTopK ==
    [][ \A p \in Procs :
          (/\ Handles(p, "similar-users")
           /\ Available(p)
           /\ written[last'[p].req.user_id] # <<>>
           /\ \A i \in 1..Len(last'[p].req.candidate_ids) :
                 written[last'[p].req.candidate_ids[i]] # <<>>
           /\ last'[p].req.top_k >= 0)
          => /\ last'[p].resp.status = 200
             /\ LET out == last'[p].resp.body.similar_users
                IN  /\ Len(out) = Min(last'[p].req.top_k, Len(last'[p].req.candidate_ids))
                    /\ SimilarIds(out) \subseteq Range(last'[p].req.candidate_ids)
                    /\ \A i \in 1..Len(out), j \in 1..Len(out) :
                          i < j => SimGe(out[i].similarity, out[j].similarity) ]_vars

\* C14: generate_user_embedding returns a vector of EMBEDDING_DIM numbers
\* whose L2 norm is 1, or the zero vector when the combined vector is zero.
C14_UnitNorm ==
    \A p \in Procs :
        IsOp(p, "generate_embedding")
        => LET embedding == generate_user_embedding(last[p].req)
           IN  /\ Len(embedding.vec) = EMBEDDING_DIM
               /\ \A i \in 1..EMBEDDING_DIM : ~IsNaN(embedding.vec[i])
               /\ \/ embedding.normalized
                  \/ \A i \in 1..EMBEDDING_DIM : embedding.vec[i] = RZero

\* The two profiles of a handled POST /compatibility
IsPair(p) == IsOp(p, "compatibility")
UserA(p) == last[p].req.user_a
UserB(p) == last[p].req.user_b
REq(x, y) == RLe(x, y) /\ RLe(y, x)

\* C15: if either values map is empty, or the two maps share no key,
\* calculate_values_compatibility returns score 0.5 and no evidence.
C15_NoSharedKeyNeutral ==
    \A p \in Procs :
        (IsPair(p) /\ Keys(UserA(p).values) \cap Keys(UserB(p).values) = {})
        => LET res == calculate_values_compatibility(hashOrder[p], UserA(p), UserB(p))
           IN  /\ res.err = ""
               /\ REq(res.score, R(1, 2))
               /\ res.ev = <<>>
               /\ last[p].resp.status = 200 => last[p].resp.body.values_score = 500

C15_Witness ==
    /\ IsPair("w1")
    /\ UserA("w1") = ProfileHigh
    /\ UserB("w1") = ProfileAway
    /\ last["w1"].resp.status = 200
    /\ last["w1"].resp.body.values_score = 500

\* The attachment sub-score of two profiles of the same style
SameStyleScore(style) ==
    CASE style = "SECURE" -> R(10, 10)
      [] style = "ANXIOUS" -> R(5, 10)
      [] style = "AVOIDANT" -> R(4, 10)
      [] OTHER -> R(5, 10)

\* C16 as stated: a valid profile compared with an identical copy of itself
\* scores personality >= 0.9 and has "Live nearby" in the circumstantial
\* evidence.
C16_IdenticalScoresHigh ==
    \A p \in Procs :
        (IsPair(p) /\ UserA(p) = UserB(p) /\ Valid(UserA(p)))
        => /\ RLe(R(9, 10), calculate_personality_compatibility(UserA(p), UserB(p)).score)
           /\ In("Live nearby", calculate_circumstantial_score(UserA(p), UserB(p)).ev)

\* C16, amended: a valid profile compared with an identical copy of itself
\* scores personality (4.8 - neuroticism/100 + t) / 6, t being the attachment
\* sub-score of its style paired with itself, which is >= 0.9 exactly when the
\* style is SECURE and neuroticism <= 40; "Live nearby" is in the
\* circumstantial evidence.
C16_IdenticalPersonality ==
    \A p \in Procs :
        (IsPair(p) /\ UserA(p) = UserB(p) /\ Valid(UserA(p)))
        => LET score == calculate_personality_compatibility(UserA(p), UserB(p)).score
               style == UserA(p).attachment_style
               n == UserA(p).neuroticism
           IN  /\ REq(RMul(score, RInt(6)),
                      RSub(RAdd(R(48, 10), SameStyleScore(style)), R(n, 100)))
               /\ RLe(R(9, 10), score) <=> (style = "SECURE" /\ n <= 40)
               /\ In("Live nearby", calculate_circumstantial_score(UserA(p), UserB(p)).ev)

C16_Witness ==
    /\ IsPair("w1")
    /\ UserA("w1") = ProfileC
    /\ UserB("w1") = ProfileC
    /\ last["w1"].resp.status = 200
    /\ last["w1"].resp.body.personality_score = 750

\* Both wants_kids non-null and opposite
OppositeKids(a, b) ==
    /\ ~IsNone(a.wants_kids)
    /\ ~IsNone(b.wants_kids)
    /\ Get(a.wants_kids) # Get(b.wants_kids)

\* The number of lifestyle terms other than wants_kids that both sides provide
OtherTerms(a, b) ==
    Cardinality({f \in {"drinks", "smokes", "religion"} : ~IsNone(a[f]) /\ ~IsNone(b[f])})
    + (IF a.interests # <<>> /\ b.interests # <<>> THEN 1 ELSE 0)

NoKidsAnswer(a) == [a EXCEPT !.wants_kids = <<>>]

\* C17 as stated: two valid profiles with opposite wants_kids score
\* lifestyle < 0.7.
C17_OppositeKidsBelow ==
    \A p \in Procs :
        (IsPair(p) /\ OppositeKids(UserA(p), UserB(p)) /\ Valid(UserA(p)) /\ Valid(UserB(p)))
        => RLt(calculate_lifestyle_compatibility(UserA(p), UserB(p)).score, R(7, 10))

\* C17, amended: with opposite wants_kids the lifestyle score is the mean of
\* 0.2 and the k other terms both sides provide, (0.2 + k * s) / (k + 1) with
\* s the lifestyle score of the same profiles without their wants_kids
\* answer; it is at most 0.84.
C17_OppositeKidsMean ==
    \A p \in Procs :
        (IsPair(p) /\ OppositeKids(UserA(p), UserB(p)) /\ Valid(UserA(p)) /\ Valid(UserB(p)))
        => LET score == calculate_lifestyle_compatibility(UserA(p), UserB(p)).score
               others == calculate_lifestyle_compatibility(NoKidsAnswer(UserA(p)),
                                                           NoKidsAnswer(UserB(p))).score
               k == OtherTerms(UserA(p), UserB(p))
           IN  /\ REq(RMul(score, RInt(k + 1)),
                      IF k = 0 THEN R(2, 10) ELSE RAdd(R(2, 10), RMul(others, RInt(k))))
               /\ RLe(score, R(84, 100))

C17_Witness ==
    /\ IsPair("w1")
    /\ UserA("w1") = ProfileA
    /\ UserB("w1") = ProfileAway
    /\ last["w1"].resp.status = 200
    /\ last["w1"].resp.body.lifestyle_score = 800

\* One profile lives in Los Angeles and the other in New York, more than
\* 3900 km away and farther than either max_distance_km
FarApart(a, b) ==
    /\ LosAngeles \in {a.location, b.location}
    /\ {a.location, b.location} \cap {NewYork, Uptown} # {}
    /\ a.max_distance_km < 3900
    /\ b.max_distance_km < 3900

AgeOk(a, b) ==
    /\ a.preferred_age_min <= b.age /\ b.age <= a.preferred_age_max
    /\ b.preferred_age_min <= a.age /\ a.age <= b.preferred_age_max

GenderOk(a, b) ==
    /\ a.preferred_gender = <<>> \/ In(b.gender, a.preferred_gender)
    /\ b.preferred_gender = <<>> \/ In(a.gender, b.preferred_gender)

\* C18 as stated: two valid profiles farther apart than
\* min(max_distance_a, max_distance_b) score circumstantial <= 0.5.
C18_FarScoresLow ==
    \A p \in Procs :
        (IsPair(p) /\ FarApart(UserA(p), UserB(p)) /\ Valid(UserA(p)) /\ Valid(UserB(p)))
        => RLe(calculate_circumstantial_score(UserA(p), UserB(p)).score, R(5, 10))

\* C18, amended: two valid profiles farther apart than
\* min(max_distance_a, max_distance_b) score circumstantial at most 2.3 / 3,
\* and <= 0.5 exactly when an age preference or a gender preference is not
\* met; "Live nearby" is not in the evidence.
C18_FarFlatPenalty ==
    \A p \in Procs :
        (IsPair(p) /\ FarApart(UserA(p), UserB(p)) /\ Valid(UserA(p)) /\ Valid(UserB(p)))
        => LET res == calculate_circumstantial_score(UserA(p), UserB(p))
           IN  /\ res.err = ""
               /\ RLe(res.score, R(23, 30))
               /\ RLe(res.score, R(5, 10))
                  <=> ~(AgeOk(UserA(p), UserB(p)) /\ GenderOk(UserA(p), UserB(p)))
               /\ ~In("Live nearby", res.ev)

C18_Witness ==
    /\ IsPair("w1")
    /\ UserA("w1") = ProfileB
    /\ UserB("w1") = ProfileAway
    /\ last["w1"].resp.status = 200
    /\ last["w1"].resp.body.circumstantial_score = 767

\* The table of the attachment sub-score over unordered pairs of styles
SymmetricTable(x, y) ==
    CASE {x, y} = {"SECURE"} -> R(10, 10)
      [] {x, y} = {"SECURE", "ANXIOUS"} -> R(7, 10)
      [] {x, y} = {"SECURE", "AVOIDANT"} -> R(7, 10)
      [] {x, y} = {"ANXIOUS", "AVOIDANT"} -> R(3, 10)
      [] {x, y} = {"ANXIOUS"} -> R(5, 10)
      [] {x, y} = {"AVOIDANT"} -> R(4, 10)
      [] OTHER -> R(5, 10)

\* C20: the attachment sub-score of calculate_personality_compatibility is
\* the table's value for the unordered pair of styles, in either argument
\* order, and "Healthy attachment dynamics" is emitted exactly when that
\* value is >= 0.7.
C20_AttachmentSymmetric ==
    \A p \in Procs :
        IsPair(p)
        => LET x == UserA(p).attachment_style
               y == UserB(p).attachment_style
           IN  /\ REq(attachment_compatibility(SortedPair(x, y)), SymmetricTable(x, y))
               /\ In("Healthy attachment dynamics",
                     calculate_personality_compatibility(UserA(p), UserB(p)).ev)
                  <=> RLe(R(7, 10), SymmetricTable(x, y))

C21_InterestSlotsDefined ==
    \A p \in Procs :
        IsOp(p, "generate_embedding")
        => LET embedding == generate_interest_embedding(last[p].sent.interests)
           IN  \A i \in 1..Len(embedding) :
                  /\ ~IsNaN(embedding[i])
                  /\ RLe(RZero, embedding[i])
                  /\ RLe(embedding[i], ROne)
                  /\ i > max_interests => embedding[i] = RZero

\* The number of lifestyle terms other than the interest overlap that both
\* sides provide
TermsBesideInterests(a, b) ==
    Cardinality({f \in {"wants_kids", "drinks", "smokes", "religion"} :
                    ~IsNone(a[f]) /\ ~IsNone(b[f])})

NoInterests(a) == [a EXCEPT !.interests = <<>>]

\* |A \cap B| / |A \cup B|, and 0.5 when both sets are empty
Jaccard(a, b) ==
    IF a.interests = <<>> /\ b.interests = <<>> THEN R(1, 2)
    ELSE R(Cardinality(Range(a.interests) \cap Range(b.interests)),
           Cardinality(Range(a.interests) \cup Range(b.interests)))

\* C22: the interest-overlap term of calculate_lifestyle_compatibility is the
\* Jaccard index of the two interest sets, and 0.5 when both sets are empty;
\* in both cases it is one of the terms of the mean.
C22_InterestTermInMean ==
    \A p \in Procs :
        (IsPair(p) /\ (UserA(p).interests = <<>> <=> UserB(p).interests = <<>>))
        => LET score == calculate_lifestyle_compatibility(UserA(p), UserB(p)).score
               others == calculate_lifestyle_compatibility(NoInterests(UserA(p)),
                                                           NoInterests(UserB(p))).score
               k == TermsBesideInterests(UserA(p), UserB(p))
           IN  REq(RMul(score, RInt(k + 1)),
                   IF k = 0 THEN Jaccard(UserA(p), UserB(p))
                   ELSE RAdd(RMul(others, RInt(k)), Jaccard(UserA(p), UserB(p))))

\* C23: for drinks and smokes present on both sides, "Similar drinking
\* habits" / "Similar smoking habits" is emitted exactly when the two scale
\* values differ by 0 or by 1.
C23_SimilarHabitsWithinOne ==
    \A p \in Procs :
        IsPair(p)
        => LET ev == calculate_lifestyle_compatibility(UserA(p), UserB(p)).ev
           IN  /\ (~IsNone(UserA(p).drinks) /\ ~IsNone(UserB(p).drinks))
                  => (In("Similar drinking habits", ev)
                      <=> AbsInt(Get(UserA(p).drinks) - Get(UserB(p).drinks)) <= 1)
               /\ (~IsNone(UserA(p).smokes) /\ ~IsNone(UserB(p).smokes))
                  => (In("Similar smoking habits", ev)
                      <=> AbsInt(Get(UserA(p).smokes) - Get(UserB(p).smokes)) <= 1)

\* The keys of a values map in the order they were inserted
InsertionKeys(values) == [i \in 1..Len(values) |-> values[i].key]

\* The shared keys of two values maps in the insertion order of the first
SharedInOrder(a, b) ==
    SelectSeq(InsertionKeys(a.values), LAMBDA k : k \in Keys(b.values))

\* C24: for two profiles that share a values key, the evidence of
\* calculate_values_compatibility is the "Aligned on ..." strings of the first
\* three shared keys, in the insertion order of the values map, whose
\* similarity exceeds 0.8, and the score is the mean similarity over the shared
\* keys whose two values are numeric (0.5 when there is none).
C24_EvidenceInInsertionOrder ==
    \A p \in Procs :
        (IsPair(p) /\ Keys(UserA(p).values) \cap Keys(UserB(p).values) # {})
        => LET res == calculate_values_compatibility(hashOrder[p], UserA(p), UserB(p))
               inOrder == ValuesLoop(UserA(p), UserB(p),
                                     SharedInOrder(UserA(p), UserB(p)), <<<<>>, <<>>>>)
           IN  /\ res.ev = Take(inOrder[2], 3)
               /\ REq(res.score, IF inOrder[1] # <<>> THEN Mean(inOrder[1]) ELSE RHalf)

\* The five primary sub-scores of a pair, before rounding
PrimaryScores(order, a, b) ==
    << calculate_personality_compatibility(a, b).score,
       calculate_values_compatibility(order, a, b).score,
       calculate_lifestyle_compatibility(a, b).score,
       calculate_attraction_score(a, b),
       calculate_circumstantial_score(a, b).score >>

\* 0.30 personality + 0.25 values + 0.20 lifestyle + 0.15 attraction
\* + 0.10 circumstantial
WeightedSum(s) ==
    RSum(<< RMul(R(30, 100), s[1]), RMul(R(25, 100), s[2]), RMul(R(20, 100), s[3]),
            RMul(R(15, 100), s[4]), RMul(R(10, 100), s[5]) >>)

GrowthOf(a, b) == calculate_growth_potential(a, b)

\* C25: the overall_score of a 200 response of POST /compatibility is the sum
\* 0.30 personality + 0.25 values + 0.20 lifestyle + 0.15 attraction + 0.10
\* circumstantial of the five primary sub-scores, times 100 and rounded to one
\* decimal; growth has no part in it: the pair taken in the other order, when
\* its five primary sub-scores are the same, has the same overall_score
\* whatever its growth score and challenges are.
C25_OverallIsWeightedSum ==
    \A p \in Procs :
        (IsPair(p) /\ last[p].resp.status = 200)
        => LET a == UserA(p)
               b == UserB(p)
               s == PrimaryScores(hashOrder[p], a, b)
           IN  /\ last[p].resp.body.overall_score = Round1(WeightedSum(s))
               /\ PrimaryScores(hashOrder[p], b, a) = s
                  => calculate_full_compatibility(hashOrder[p], b, a).overall_score
                     = last[p].resp.body.overall_score

C25_Witness ==
    /\ IsPair("w1")
    /\ last["w1"].resp.status = 200
    /\ PrimaryScores(hashOrder["w1"], UserB("w1"), UserA("w1"))
       = PrimaryScores(hashOrder["w1"], UserA("w1"), UserB("w1"))
    /\ GrowthOf(UserA("w1"), UserB("w1")) # GrowthOf(UserB("w1"), UserA("w1"))
    /\ last["w1"].resp.body.growth_score < 500
    /\ last["w1"].resp.body.overall_score > 500

\* The evidence lists of the personality, values, lifestyle and circumstantial
\* scorers, one after the other
EvidencePool(order, a, b) ==
    calculate_personality_compatibility(a, b).ev
    \o calculate_values_compatibility(order, a, b).ev
    \o calculate_lifestyle_compatibility(a, b).ev
    \o calculate_circumstantial_score(a, b).ev

CandidateOf(request, id) == request.candidates[PositionOf(request, id)]

\* C26: for every recommendation returned, the candidate's top_compatibilities
\* is the first 5 entries of the personality, values, lifestyle and
\* circumstantial evidence in this order, match_reasons is the first 3 entries
\* of top_compatibilities, and conversation_starters has at most 5 entries.
C26_ReasonsAreFirstThree ==
    \A p \in Procs :
        Ranked(p)
        => \A i \in 1..Len(last[p].resp.body) :
              LET r == last[p].resp.body[i]
                  user == last[p].req.user
                  c == CandidateOf(last[p].req, r.user_id)
                  top == calculate_full_compatibility(hashOrder[p], user, c).top_compatibilities
              IN  /\ top = Take(EvidencePool(hashOrder[p], user, c), 5)
                  /\ Len(top) <= 5
                  /\ r.match_reasons = Take(top, 3)
                  /\ Len(r.match_reasons) <= 3
                  /\ Len(r.conversation_starters) <= 5

C26_Witness ==
    /\ Ranked("w1")
    /\ Len(last["w1"].resp.body) >= 1
    /\ LET r == last["w1"].resp.body[1]
           c == CandidateOf(last["w1"].req, r.user_id)
       IN  /\ Len(EvidencePool(hashOrder["w1"], last["w1"].req.user, c)) > 5
           /\ Len(r.match_reasons) = 3
           /\ Len(r.conversation_starters) = 5

\* C27: a POST /embedding/generate for user id X leaves the cache entry of
\* every other user id Y as it was, and with it the answer GET /embedding/Y
\* gets.
C27_OtherKeysUntouched ==
    [][\A p \in Procs :
          Handles(p, "generate_embedding")
          => \A y \in UserIds \ {last'[p].sent.user_id} :
                /\ redis_client'[y] = redis_client[y]
                /\ get_embedding(REDIS_AVAILABLE[p], redisUp', redis_client', y)
                   = get_embedding(REDIS_AVAILABLE[p], redisUp, redis_client, y)]_vars

C27_Witness ==
    /\ IsOp("w1", "generate_embedding")
    /\ last["w1"].sent.user_id = 1
    /\ last["w1"].resp.status = 200
    /\ last["w1"].resp.body.cached
    /\ redis_client[1] # <<>>
    /\ redis_client[2] # <<>>
    /\ written[2] = <<ProfileB>>
    /\ get_embedding(REDIS_AVAILABLE["w1"], redisUp, redis_client, 2).status = 200

\* C28: calculate_growth_potential gives a pair the same score and the same
\* challenges in both argument orders.
C28_GrowthSymmetric ==
    \A p \in Procs :
        IsPair(p)
        => LET ab == calculate_growth_potential(UserA(p), UserB(p))
               ba == calculate_growth_potential(UserB(p), UserA(p))
           IN  REq(ab.score, ba.score) /\ ab.ev = ba.ev

\* The five primary scores and the overall score of a result
ReportedScores(r) ==
    << r.personality_score, r.values_score, r.lifestyle_score, r.attraction_score,
       r.circumstantial_score, r.overall_score >>

\* C29: for every pair of valid profiles, the result for (a, b) and the result
\* for (b, a) report the same personality, values, lifestyle, attraction,
\* circumstantial and overall scores.
C29_ScoresSymmetric ==
    \A p \in Procs :
        (IsPair(p) /\ Valid(UserA(p)) /\ Valid(UserB(p)))
        => /\ last[p].resp.status = 200
           /\ LET ba == calculate_full_compatibility(hashOrder[p], UserB(p), UserA(p))
              IN  ba.err = "" /\ ReportedScores(ba) = ReportedScores(last[p].resp.body)

C29_Witness ==
    /\ IsPair("w1")
    /\ UserA("w1") = ProfileA2
    /\ UserB("w1") = ProfileC
    /\ last["w1"].resp.status = 200
    /\ ReportedScores(calculate_full_compatibility(hashOrder["w1"], ProfileC, ProfileA2))
       = ReportedScores(last["w1"].resp.body)
    /\ last["w1"].resp.body.personality_score # last["w1"].resp.body.attraction_score
    /\ GrowthOf(ProfileA2, ProfileC) # GrowthOf(ProfileC, ProfileA2)

\* The intro band of a result
Intro(p) == last[p].resp.body.explanation.intro
Reported(p) == last[p].resp.body.overall_score

\* C30 as stated: the intro band agrees with the reported overall_score:
\* "Exceptional" iff it is >= 85.0, "Strong" iff in [75.0, 85.0), "Good" iff
\* in [65.0, 75.0), "Moderate" iff in [50.0, 65.0), "different perspectives"
\* iff below 50.0.
C30_BandOfReported ==
    \A p \in Procs :
        (IsPair(p) /\ last[p].resp.status = 200)
        => /\ Intro(p) = "Exceptional" <=> Reported(p) >= 850
           /\ Intro(p) = "Strong" <=> (750 <= Reported(p) /\ Reported(p) < 850)
           /\ Intro(p) = "Good" <=> (650 <= Reported(p) /\ Reported(p) < 750)
           /\ Intro(p) = "Moderate" <=> (500 <= Reported(p) /\ Reported(p) < 650)
           /\ Intro(p) = "different perspectives" <=> Reported(p) < 500

\* C30, amended: the intro band agrees with the weighted sum before rounding
\* ("Exceptional" iff it is >= 0.85, "Strong" iff in [0.75, 0.85), and so on),
\* so the reported overall_score lies in the band's range or on its upper
\* threshold: "Strong" goes with 75.0 <= overall_score <= 85.0.
C30_BandOfUnrounded ==
    \A p \in Procs :
        (IsPair(p) /\ last[p].resp.status = 200)
        => LET o == WeightedSum(PrimaryScores(hashOrder[p], UserA(p), UserB(p)))
           IN  /\ Intro(p) = "Exceptional" <=> RLe(R(85, 100), o)
               /\ Intro(p) = "Strong" <=> (RLe(R(75, 100), o) /\ RLt(o, R(85, 100)))
               /\ Intro(p) = "Good" <=> (RLe(R(65, 100), o) /\ RLt(o, R(75, 100)))
               /\ Intro(p) = "Moderate" <=> (RLe(R(50, 100), o) /\ RLt(o, R(65, 100)))
               /\ Intro(p) = "different perspectives" <=> RLt(o, R(50, 100))
               /\ Intro(p) = "Exceptional" => Reported(p) >= 850
               /\ Intro(p) = "Strong" => (750 <= Reported(p) /\ Reported(p) <= 850)
               /\ Intro(p) = "Good" => (650 <= Reported(p) /\ Reported(p) <= 750)
               /\ Intro(p) = "Moderate" => (500 <= Reported(p) /\ Reported(p) <= 650)
               /\ Intro(p) = "different perspectives" => Reported(p) <= 500

C30_Witness ==
    /\ IsPair("w1")
    /\ UserA("w1") = ProfileA
    /\ UserB("w1") = ProfileEdge
    /\ last["w1"].resp.status = 200
    /\ Reported("w1") = 850
    /\ Intro("w1") = "Strong"



====
